---- MODULE Spec2Model ----
(***************************************************************************)
(* A model of the automation agent (src/src/core/agent.py) and the ledger  *)
(* tables it writes (src/src/database/models.py).                          *)
(*                                                                         *)
(* The durable store is modelled apart from the objects a request holds in *)
(* memory: a commit copies the pending changes to the store or, when it    *)
(* fails, discards them (the session is rolled back and the objects are    *)
(* expired).  A commit can fail for a transient reason at any time, and it *)
(* always fails when it would insert a row that breaks a NOT NULL column.  *)
(* The clock is datetime.utcnow(): it advances while a network call is     *)
(* awaited and is read as it stands otherwise.                             *)
(***************************************************************************)
EXTENDS Integers, Sequences, FiniteSets, TLC

(***************************************************************************)
(* Bounds of the model.                                                    *)
(***************************************************************************)
MaxActions == 1
MaxIntents == 2
MaxFaults == 2
MaxNonces == 2
MaxTokens == 2
MaxSessions == 1

Users == {"alice", "bob"}
Keys == {"daily.txt", "old.txt"}
TicketKeys == {"PROJ-1"}
Reasons == {"", "User requested rollback"}

(***************************************************************************)
(* Nullable columns: None is NULL, Some(x) a value.                        *)
(***************************************************************************)
None == << >>
Some(x) == << x >>
IsSet(o) == o # None
Val(o) == o[1]

(***************************************************************************)
(* ActionStatus and ServiceType.                                           *)
(***************************************************************************)
PENDING == "pending"
IN_PROGRESS == "in_progress"
COMPLETED == "completed"
FAILED == "failed"
ROLLED_BACK == "rolled_back"
ActionStatus == {PENDING, IN_PROGRESS, COMPLETED, FAILED, ROLLED_BACK}

SLACK == "slack"
JIRA == "jira"
AWS_S3 == "aws_s3"
GITHUB == "github"

(***************************************************************************)
(* The functions offered to the language model, and one name it may        *)
(* return that is none of them.                                            *)
(***************************************************************************)
KnownFunctions ==
  {"get_slack_messages", "create_jira_ticket", "upload_to_s3",
   "search_github_repos", "analyze_text"}
UnknownFunction == "send_email"
FunctionNames == KnownFunctions \cup {UnknownFunction}

(* A function call of the language model: its name and, of its arguments,  *)
(* the object key (the one argument the agent copies into rollback data).  *)
Intents ==
  {[name |-> n, key |-> "daily.txt"] : n \in FunctionNames \ {"upload_to_s3"}}
    \cup {[name |-> "upload_to_s3", key |-> k] : k \in Keys}

VARIABLES
  actions,    \* table automation_actions: row id = index
  calls,      \* table function_calls: row id = index
  now,        \* datetime.utcnow()
  ex,         \* the execute_command in flight
  history,    \* per Action: the assignments the code made to status / completed_at
  resp,       \* the AgentResponse last returned (or the exception raised)
  rb,         \* what the last rollback_action did
  faults,     \* transient commit failures so far
  state_cache,    \* OAuth2Manager._state_cache: nonce -> handshake state
  nonces,         \* nonces generated so far (each new one is fresh)
  presented,      \* nonces that were handed to exchange_code_for_tokens
  connections,    \* table of Token Records (ServiceConnection): row id = index
  minted,         \* tokens the providers have issued so far
  session_cache,  \* UserManager.session_cache: session token -> session
  sessions,       \* session tokens generated so far
  time,           \* time.time(), in seconds since the process started
  oauth,          \* what the last credential operation did and returned
  rollbacks,      \* the rollback_action coroutines in flight, one per request
  invocations,    \* per Call: how often its compensating operation was invoked
  exchanges       \* the exchange_code_for_tokens calls in flight, one per request

agentVars == << actions, calls, now, ex, history, resp, rb, faults >>

oauthVars ==
  << state_cache, nonces, presented, connections, minted, session_cache, sessions,
     time, oauth >>

concurrentVars == << rollbacks, invocations, exchanges >>

vars == << agentVars, oauthVars, concurrentVars >>


(***************************************************************************)
(* _execute_function_call: the FunctionCall object and what becomes of it. *)
(***************************************************************************)

(* The service_type each branch assigns; analyze_text assigns None and an  *)
(* unknown name reaches no assignment.                                     *)
service_type_of(fn) ==
  CASE fn = "get_slack_messages" -> Some(SLACK)
    [] fn = "create_jira_ticket" -> Some(JIRA)
    [] fn = "upload_to_s3" -> Some(AWS_S3)
    [] fn = "search_github_repos" -> Some(GITHUB)
    [] OTHER -> None

(* The rollback data a branch stores after its adapter returned: the key   *)
(* of the created ticket, or the key the object was uploaded under.        *)
rollback_function_of(fn) ==
  CASE fn = "create_jira_ticket" -> Some("delete_jira_ticket")
    [] fn = "upload_to_s3" -> Some("delete_s3_object")
    [] OTHER -> None

rollback_parameters_of(fn, key, resultKey) ==
  CASE fn = "create_jira_ticket" -> Some([name |-> "ticket_key", value |-> resultKey])
    [] fn = "upload_to_s3" -> Some([name |-> "key", value |-> key])
    [] OTHER -> None

(* FunctionCall(...) as constructed, before the try block. *)
FunctionCall(aid, intent, t) ==
  [automation_action_id |-> aid,
   function_name |-> intent.name,
   parameters |-> intent.key,
   service_type |-> None,
   status |-> PENDING,
   response |-> None,
   error_message |-> None,
   called_at |-> t,
   completed_at |-> None,
   rollback_function |-> None,
   rollback_parameters |-> None]

(* function_calls.service_type is NOT NULL: an insert without it fails. *)
insert_allowed(fc) == IsSet(fc.service_type)

(* A commit that inserts the row fc; ok is whether the store is reachable. *)
commit_call(ok, fc) == ok /\ insert_allowed(fc)

(* The try block up to the first commit, when the adapter returned. *)
call_succeeded(fc, intent, resultKey, t) ==
  [fc EXCEPT !.service_type = service_type_of(intent.name),
             !.rollback_function = rollback_function_of(intent.name),
             !.rollback_parameters =
                rollback_parameters_of(intent.name, intent.key, resultKey),
             !.status = COMPLETED,
             !.response = Some(resultKey),
             !.completed_at = Some(t)]

(* The except block: what it assigns on top of what the object holds. *)
call_failed(fc, t) ==
  [fc EXCEPT !.status = FAILED,
             !.error_message = Some("error"),
             !.completed_at = Some(t)]

(* A try block that reports the call as done whether or not its commit     *)
(* went through.                                                           *)
execute_function_call_outcome_unconfirmed(aid, intent, t0, t1, adapterOk, resultKey, c1, c2) ==
  LET fc0 == FunctionCall(aid, intent, t0)
      known == intent.name \in KnownFunctions
      returned == known /\ adapterOk
      fcTry == call_succeeded(fc0, intent, resultKey, t1)
      first == returned /\ commit_call(c1, fcTry)
      fcHeld == IF known
                  THEN [fc0 EXCEPT !.service_type = service_type_of(intent.name)]
                  ELSE fc0
      fcExc == call_failed(fcHeld, t1)
      second == ~returned /\ commit_call(c2, fcExc)
  IN [row |-> IF first THEN Some(fcTry) ELSE IF second THEN Some(fcExc) ELSE None,
      result |-> IF returned
                   THEN Some([function |-> intent.name, parameters |-> intent.key,
                              status |-> "success"])
                 ELSE IF second
                   THEN Some([function |-> intent.name, parameters |-> intent.key,
                              status |-> "failed"])
                 ELSE None,
      raised |-> ~returned /\ ~second,
      commitRaised |-> ~returned /\ ~second,
      failedCommits |->
        (IF returned /\ insert_allowed(fcTry) /\ ~c1 THEN 1 ELSE 0)
          + (IF ~returned /\ insert_allowed(fcExc) /\ ~c2 THEN 1 ELSE 0)]

(* An except block that goes on when its own commit raised. *)
execute_function_call_outcome_swallow(aid, intent, t0, t1, adapterOk, resultKey, c1, c2) ==
  LET fc0 == FunctionCall(aid, intent, t0)
      known == intent.name \in KnownFunctions
      returned == known /\ adapterOk
      fcTry == call_succeeded(fc0, intent, resultKey, t1)
      first == returned /\ commit_call(c1, fcTry)
      fcHeld == IF returned THEN fcTry
                ELSE IF known
                       THEN [fc0 EXCEPT !.service_type = service_type_of(intent.name)]
                       ELSE fc0
      fcExc == call_failed(fcHeld, t1)
      second == ~first /\ commit_call(c2, fcExc)
  IN [row |-> IF first THEN Some(fcTry) ELSE IF second THEN Some(fcExc) ELSE None,
      result |-> Some([function |-> intent.name, parameters |-> intent.key,
                       status |-> IF first THEN "success" ELSE "failed"]),
      raised |-> FALSE,
      commitRaised |-> (returned /\ ~first) \/ (~first /\ ~second),
      failedCommits |->
        (IF returned /\ insert_allowed(fcTry) /\ ~c1 THEN 1 ELSE 0)
          + (IF ~first /\ insert_allowed(fcExc) /\ ~c2 THEN 1 ELSE 0)]

(* An except block that stores the failed call and re-raises. *)
execute_function_call_outcome_reraise(aid, intent, t0, t1, adapterOk, resultKey, c1, c2) ==
  LET fc0 == FunctionCall(aid, intent, t0)
      known == intent.name \in KnownFunctions
      returned == known /\ adapterOk
      fcTry == call_succeeded(fc0, intent, resultKey, t1)
      first == returned /\ commit_call(c1, fcTry)
      fcHeld == IF returned THEN fcTry
                ELSE IF known
                       THEN [fc0 EXCEPT !.service_type = service_type_of(intent.name)]
                       ELSE fc0
      fcExc == call_failed(fcHeld, t1)
      second == ~first /\ commit_call(c2, fcExc)
  IN [row |-> IF first THEN Some(fcTry) ELSE IF second THEN Some(fcExc) ELSE None,
      result |-> IF first
                   THEN Some([function |-> intent.name, parameters |-> intent.key,
                              status |-> "success"])
                 ELSE None,
      raised |-> ~first,
      commitRaised |-> (returned /\ ~first) \/ (~first /\ ~second),
      failedCommits |->
        (IF returned /\ insert_allowed(fcTry) /\ ~c1 THEN 1 ELSE 0)
          + (IF ~first /\ insert_allowed(fcExc) /\ ~c2 THEN 1 ELSE 0)]

(* One run of _execute_function_call.  adapterOk: the adapter returned;    *)
(* resultKey: the key in its result; c1, c2: the store is reachable at the *)
(* commit of the try block and at the commit of the except block.          *)
execute_function_call_outcome(aid, intent, t0, t1, adapterOk, resultKey, c1, c2) ==
  LET fc0 == FunctionCall(aid, intent, t0)
      known == intent.name \in KnownFunctions
      returned == known /\ adapterOk
      fcTry == call_succeeded(fc0, intent, resultKey, t1)
      first == returned /\ commit_call(c1, fcTry)
      fcHeld == IF returned THEN fcTry
                ELSE IF known
                       THEN [fc0 EXCEPT !.service_type = service_type_of(intent.name)]
                       ELSE fc0
      fcExc == call_failed(fcHeld, t1)
      second == ~first /\ commit_call(c2, fcExc)
  IN [row |-> IF first THEN Some(fcTry) ELSE IF second THEN Some(fcExc) ELSE None,
      result |-> IF first
                   THEN Some([function |-> intent.name, parameters |-> intent.key,
                              status |-> "success"])
                 ELSE IF second
                   THEN Some([function |-> intent.name, parameters |-> intent.key,
                              status |-> "failed"])
                 ELSE None,
      raised |-> ~first /\ ~second,
      commitRaised |-> (returned /\ ~first) \/ (~first /\ ~second),
      failedCommits |->
        (IF returned /\ insert_allowed(fcTry) /\ ~c1 THEN 1 ELSE 0)
          + (IF ~first /\ insert_allowed(fcExc) /\ ~c2 THEN 1 ELSE 0)]


(***************************************************************************)
(* State after construction: empty tables, no request in flight.           *)
(***************************************************************************)
(* An execute_command in flight: where it stands, its Action, the length   *)
(* of the language model's list, the index of the next function call, the  *)
(* results collected, the function calls handed to _execute_function_call  *)
(* so far, and whether a commit has raised during this run.                *)
Idle ==
  [pc |-> "idle", user |-> "", id |-> 0, n |-> 0, i |-> 0, results |-> << >>,
   attempted |-> << >>, store_error |-> FALSE]

NoResponse ==
  [op |-> "none", success |-> FALSE, message |-> "", action_id |-> None,
   rollback_available |-> FALSE, data |-> << >>]

NoRollback ==
  [action_id |-> 0, user |-> "", reason |-> "", message |-> "", passed |-> FALSE,
   attempts |-> << >>, results |-> << >>, assigned |-> None,
   committed |-> FALSE]

(* The requests that may be in flight together, and a request that has    *)
(* not arrived.                                                            *)
Requests == {1, 2}

NoRequest ==
  [pc |-> "none", user |-> "", id |-> 0, reason |-> "", order |-> << >>, k |-> 0,
   results |-> << >>, success |-> FALSE, message |-> ""]

NoCallback ==
  [pc |-> "none", service |-> "", state |-> 0, state_data |-> None, error |-> "",
   contacted |-> FALSE]

(* No credential operation has run yet. *)
NoOutcome ==
  [op |-> "none", user |-> "", service |-> "", state |-> 0, error |-> "",
   contacted |-> FALSE, token |-> None, upsert |-> "none", revoked |-> "none",
   removed |-> FALSE]

Init ==
  /\ actions = << >>
  /\ calls = << >>
  /\ now = 1
  /\ ex = Idle
  /\ history = << >>
  /\ resp = NoResponse
  /\ rb = NoRollback
  /\ faults = 0
  /\ state_cache = << >>
  /\ nonces = 0
  /\ presented = {}
  /\ connections = << >>
  /\ minted = 0
  /\ session_cache = << >>
  /\ sessions = 0
  /\ time = 0
  /\ oauth = NoOutcome
  /\ rollbacks = [r \in Requests |-> NoRequest]
  /\ invocations = << >>
  /\ exchanges = [r \in Requests |-> NoCallback]

(* Whether the store accepts a commit: it may always do so, and may fail   *)
(* while the model's budget of transient failures lasts.                   *)
CommitOutcomes == {TRUE} \cup (IF faults < MaxFaults THEN {FALSE} ELSE {})

Raised(op) ==
  [op |-> op, success |-> FALSE, message |-> "raised", action_id |-> None,
   rollback_available |-> FALSE, data |-> << >>]

(***************************************************************************)
(* execute_command, lines 206-216: the Action is created IN_PROGRESS and   *)
(* committed, outside the try block.                                       *)
(***************************************************************************)
AutomationAction(user) ==
  [user_id |-> user,
   status |-> IN_PROGRESS,
   output_data |-> None,
   error_message |-> None,
   rollback_data |-> None,
   can_rollback |-> FALSE,
   rolled_back_at |-> None,
   rollback_reason |-> None,
   started_at |-> now,
   completed_at |-> None]

execute_command(user) ==
  /\ ex.pc = "idle"
  /\ Len(actions) < MaxActions
  /\ \E ok \in CommitOutcomes :
       IF ok
         THEN /\ actions' = Append(actions, AutomationAction(user))
              /\ history' = Append(history, << [attr |-> "status", value |-> IN_PROGRESS] >>)
              /\ ex' = [Idle EXCEPT !.pc = "llm", !.user = user, !.id = Len(actions) + 1]
              /\ UNCHANGED << resp, faults >>
         ELSE /\ resp' = Raised("execute")
              /\ faults' = faults + 1
              /\ UNCHANGED << actions, history, ex >>
  /\ UNCHANGED << calls, now, rb >>

(***************************************************************************)
(* _call_llm_with_functions, lines 287-292: the language model answers     *)
(* with a list of n function calls, or the call raises.  The elements of   *)
(* the list are drawn when the loop reaches them.                          *)
(***************************************************************************)
call_llm_with_functions ==
  /\ ex.pc = "llm"
  /\ \/ \E n \in 0..MaxIntents :
          ex' = [ex EXCEPT !.pc = IF n = 0 THEN "finish" ELSE "dispatch",
                           !.n = n, !.i = 1]
     \/ ex' = [ex EXCEPT !.pc = "except"]
  /\ now' = now + 1
  /\ UNCHANGED << actions, calls, history, resp, rb, faults >>

(***************************************************************************)
(* _call_llm_with_functions, lines 297-302: the next function call is      *)
(* executed and its result appended; an exception leaves the loop.  The    *)
(* clock advances while an adapter is awaited.                             *)
(***************************************************************************)
execute_function_call ==
  /\ ex.pc = "dispatch"
  /\ \E intent \in Intents, adapterOk \in BOOLEAN, resultKey \in Keys \cup TicketKeys,
        c1, c2 \in BOOLEAN :
          LET known == intent.name \in KnownFunctions
              tick == IF known THEN 1 ELSE 0
              out == execute_function_call_outcome(
                       ex.id, intent, now, now + tick, adapterOk, resultKey, c1, c2)
          IN /\ resultKey \in IF intent.name = "create_jira_ticket" /\ adapterOk
                                THEN TicketKeys ELSE {intent.key}
             /\ known \/ adapterOk
             /\ faults + out.failedCommits <= MaxFaults
             /\ faults' = faults + out.failedCommits
             /\ now' = now + tick
             /\ calls' = IF IsSet(out.row) THEN Append(calls, Val(out.row)) ELSE calls
             /\ ex' = IF out.raised
                        THEN [ex EXCEPT !.pc = "except",
                                        !.attempted = Append(@, intent),
                                        !.store_error = TRUE]
                        ELSE [ex EXCEPT !.results = Append(@, Val(out.result)),
                                        !.attempted = Append(@, intent),
                                        !.store_error = @ \/ out.commitRaised,
                                        !.i = @ + 1,
                                        !.pc = IF ex.i = ex.n
                                                 THEN "finish" ELSE "dispatch"]
  /\ UNCHANGED << actions, history, resp, rb >>


(***************************************************************************)
(* execute_command, lines 224-238: the Action object is set COMPLETED and  *)
(* committed.  A failed commit discards the pending changes and raises     *)
(* into the except block.                                                  *)
(***************************************************************************)
finish_assignments ==
  << [attr |-> "status", value |-> COMPLETED], [attr |-> "completed_at", value |-> now] >>

execute_command_finish ==
  /\ ex.pc = "finish"
  /\ history' = [history EXCEPT ![ex.id] = @ \o finish_assignments]
  /\ \E ok \in CommitOutcomes :
       IF ok
         THEN /\ actions' = [actions EXCEPT ![ex.id].status = COMPLETED,
                                            ![ex.id].completed_at = Some(now),
                                            ![ex.id].output_data = Some(ex.results)]
              /\ resp' = [op |-> "execute", success |-> TRUE,
                          message |-> "Command executed successfully",
                          action_id |-> Some(ex.id),
                          rollback_available |-> actions'[ex.id].can_rollback,
                          data |-> ex.results]
              /\ ex' = Idle
              /\ UNCHANGED faults
         ELSE /\ ex' = [ex EXCEPT !.pc = "except", !.store_error = TRUE]
              /\ faults' = faults + 1
              /\ UNCHANGED << actions, resp >>
  /\ UNCHANGED << calls, now, rb >>

(***************************************************************************)
(* execute_command, lines 240-251: the except block sets the Action FAILED *)
(* and commits; when this commit fails too, the exception leaves           *)
(* execute_command.                                                        *)
(***************************************************************************)
except_assignments ==
  << [attr |-> "status", value |-> FAILED], [attr |-> "completed_at", value |-> now] >>

execute_command_except ==
  /\ ex.pc = "except"
  /\ history' = [history EXCEPT ![ex.id] = @ \o except_assignments]
  /\ \E ok \in CommitOutcomes :
       IF ok
         THEN /\ actions' = [actions EXCEPT ![ex.id].status = FAILED,
                                            ![ex.id].error_message = Some("error"),
                                            ![ex.id].completed_at = Some(now)]
              /\ resp' = [op |-> "execute", success |-> FALSE,
                          message |-> "Command execution failed",
                          action_id |-> Some(ex.id),
                          rollback_available |-> FALSE,
                          data |-> << >>]
              /\ UNCHANGED faults
         ELSE /\ resp' = Raised("execute")
              /\ faults' = faults + 1
              /\ UNCHANGED actions
  /\ ex' = Idle
  /\ UNCHANGED << calls, now, rb >>

(***************************************************************************)
(* rollback_action.                                                        *)
(***************************************************************************)
NotFound == "Action not found or access denied"
NotReversible == "Action cannot be rolled back"
AlreadyRolledBack == "Action already rolled back"
RolledBack == "Action rolled back successfully"
RollbackFailed == "Rollback failed"

(* Lines 466-469: the Action with this id that belongs to the agent's user. *)
query_action(user, id) ==
  IF id \in 1..Len(actions) /\ actions[id].user_id = user THEN Some(actions[id]) ELSE None

(* The status check made before the can_rollback check. *)
rollback_precondition_status_first(found) ==
  IF ~IsSet(found) THEN "Action not found or access denied"
  ELSE IF Val(found).status = ROLLED_BACK THEN "Action already rolled back"
  ELSE IF ~Val(found).can_rollback THEN "Action cannot be rolled back"
  ELSE ""

(* Lines 471-487: the first check that fails, or "" when all pass. *)
rollback_precondition(found) ==
  IF ~IsSet(found) THEN NotFound
  ELSE IF ~Val(found).can_rollback THEN NotReversible
  ELSE IF Val(found).status = ROLLED_BACK THEN AlreadyRolledBack
  ELSE ""

(* Lines 491-493: the ids of the Action's calls that carry a rollback function. *)
rollback_calls(id) ==
  {c \in 1..Len(calls) :
     calls[c].automation_action_id = id /\ IsSet(calls[c].rollback_function)}

(* The same query ordered by called_at ascending. *)
order_by_called_at_asc(S) ==
  {p \in [1..Cardinality(S) -> S] :
     /\ \A i, j \in 1..Cardinality(S) : i # j => p[i] # p[j]
     /\ \A i, j \in 1..Cardinality(S) :
          i < j => calls[p[i]].called_at <= calls[p[j]].called_at}

(* Line 494, order_by(called_at.desc()): every order the store may return, *)
(* rows of equal called_at in any order.                                   *)
order_by_called_at_desc(S) ==
  {p \in [1..Cardinality(S) -> S] :
     /\ \A i, j \in 1..Cardinality(S) : i # j => p[i] # p[j]
     /\ \A i, j \in 1..Cardinality(S) :
          i < j => calls[p[i]].called_at >= calls[p[j]].called_at}

(* A loop that stops at the first compensation that raises. *)
attempted_until_failure(order, okOf) ==
  LET failures == {k \in 1..Len(order) : ~okOf[k]}
  IN IF failures = {} THEN order
     ELSE SubSeq(order, 1, CHOOSE k \in failures : \A m \in failures : k <= m)

(* Lines 497-514: the calls of the list whose compensation is attempted:   *)
(* all of them, whether or not an earlier one raised (okOf[k] is whether   *)
(* the k-th returned).                                                     *)
attempted(order, okOf) == order

(* Lines 500-502: the adapter method one compensation calls, and with what. *)
compensation(c) ==
  [function_call_id |-> c,
   service_type |-> Val(calls[c].service_type),
   method |-> Val(calls[c].rollback_function),
   parameters |-> Val(calls[c].rollback_parameters)]

(* Lines 496-514: one entry per call visited, its result or its error. *)
rollback_results(order, okOf) ==
  [k \in 1..Len(order) |->
     [function_call_id |-> order[k],
      rollback_function |-> Val(calls[order[k]].rollback_function),
      outcome |-> IF okOf[k] THEN "result" ELSE "error"]]

(* rollback_data keeping only the compensations that returned. *)
rollback_assignments_successes_only(reason, results, t) ==
  [status |-> ROLLED_BACK,
   rolled_back_at |-> Some(t),
   rollback_reason |-> Some(reason),
   rollback_data |-> Some(SelectSeq(results, LAMBDA r : r.outcome = "result"))]

(* Lines 517-520: what is assigned to the Action after the loop. *)
rollback_assignments(reason, results, t) ==
  [status |-> ROLLED_BACK,
   rolled_back_at |-> Some(t),
   rollback_reason |-> Some(reason),
   rollback_data |-> Some(results)]

rollback_action(user, id, reason) ==
  /\ LET found == query_action(user, id)
         refusal == rollback_precondition(found)
     IN IF refusal # ""
          THEN /\ resp' = [op |-> "rollback", success |-> FALSE, message |-> refusal,
                           action_id |-> None, rollback_available |-> FALSE,
                           data |-> << >>]
               /\ rb' = [NoRollback EXCEPT !.action_id = id, !.user = user,
                                           !.message = refusal]
               /\ UNCHANGED << actions, now, faults, history >>
          ELSE \E selected \in order_by_called_at_desc(rollback_calls(id)) :
               \E okOf \in [1..Len(selected) -> BOOLEAN] :
               \E ok \in CommitOutcomes :
                 LET order == attempted(selected, okOf)
                     results == rollback_results(order, okOf)
                     t == now + Len(order)
                     assigned == rollback_assignments(reason, results, t)
                 IN /\ now' = t
                    /\ history' = [history EXCEPT ![id] =
                                     Append(@, [attr |-> "status", value |-> ROLLED_BACK])]
                    /\ rb' = [action_id |-> id, user |-> user, reason |-> reason,
                              message |-> IF ok THEN RolledBack ELSE RollbackFailed,
                              passed |-> TRUE,
                              attempts |-> [k \in 1..Len(order) |-> compensation(order[k])],
                              results |-> results,
                              assigned |-> Some(assigned),
                              committed |-> ok]
                    /\ IF ok
                         THEN /\ actions' =
                                   [actions EXCEPT
                                      ![id].status = assigned.status,
                                      ![id].rolled_back_at = assigned.rolled_back_at,
                                      ![id].rollback_reason = assigned.rollback_reason,
                                      ![id].rollback_data = assigned.rollback_data]
                              /\ resp' = [op |-> "rollback", success |-> TRUE,
                                          message |-> RolledBack,
                                          action_id |-> Some(id),
                                          rollback_available |-> FALSE,
                                          data |-> results]
                              /\ UNCHANGED faults
                         ELSE /\ resp' = [op |-> "rollback", success |-> FALSE,
                                          message |-> RollbackFailed,
                                          action_id |-> Some(id),
                                          rollback_available |-> FALSE,
                                          data |-> << >>]
                              /\ faults' = faults + 1
                              /\ UNCHANGED actions
  /\ UNCHANGED << calls, ex >>

(***************************************************************************)
(* The agent on a store nothing else writes to.                            *)
(***************************************************************************)
Next ==
  \/ (\E u \in Users : execute_command(u)) /\ UNCHANGED << oauthVars, concurrentVars >>
  \/ call_llm_with_functions /\ UNCHANGED << oauthVars, concurrentVars >>
  \/ execute_function_call /\ UNCHANGED << oauthVars, concurrentVars >>
  \/ execute_command_finish /\ UNCHANGED << oauthVars, concurrentVars >>
  \/ execute_command_except /\ UNCHANGED << oauthVars, concurrentVars >>
  \/ (\E u \in Users, id \in 1..(MaxActions + 1), reason \in Reasons :
        rollback_action(u, id, reason)) /\ UNCHANGED << oauthVars, concurrentVars >>

Spec == Init /\ [][Next]_vars


(***************************************************************************)
(* The agent on a ledger whose can_rollback column is also written from    *)
(* outside the agent.  automation_actions.can_rollback is a column of the  *)
(* store that rollback_action reads and that no line of the agent assigns; *)
(* here its value is an input, written while no command is executing, so *)
(* that the body of rollback_action runs.                                  *)
(***************************************************************************)
set_can_rollback(id, flag) ==
  /\ ex.pc = "idle"
  /\ id \in 1..Len(actions)
  /\ actions[id].can_rollback # flag
  /\ actions' = [actions EXCEPT ![id].can_rollback = flag]
  /\ UNCHANGED << calls, now, ex, history, resp, rb, faults >>

NextLedger ==
  \/ Next
  \/ (\E id \in 1..MaxActions, flag \in BOOLEAN : set_can_rollback(id, flag))
       /\ UNCHANGED << oauthVars, concurrentVars >>

SpecLedger == Init /\ [][NextLedger]_vars


(***************************************************************************)
(* The credential manager: OAuth2Manager and UserManager of                *)
(* src/src/auth/oauth2.py and the endpoints of src/src/api/main.py that    *)
(* use them.  The endpoints are coroutines that never await between their  *)
(* first and last statement (the provider is called with the blocking      *)
(* requests.post), so each runs as one step of the event loop.  Both       *)
(* time.time() and the datetime.utcnow() of the endpoints read the         *)
(* variable time.                                                          *)
(***************************************************************************)
StateMaxAge == 300
SessionMaxAge == 86400

(* The instants at which the clock is read: within the window of a         *)
(* handshake begun at 0, at its end, after it, and after a session's day.  *)
HandshakeInstants == {0, StateMaxAge, StateMaxAge + 150}
Instants == HandshakeInstants \cup {SessionMaxAge + StateMaxAge + 150}

(* The services of OAuth2Manager.oauth_configs, and the services the       *)
(* requests of the model name: two of them, one with a revoke endpoint and *)
(* one without, and for generate_auth_url also one that has no             *)
(* configuration.                                                          *)
oauth_configs == {"slack", "jira", "github"}
ConnectedServices == {"slack", "github"}
ServiceNames == ConnectedServices \cup {"aws_s3"}

InvalidState == "Invalid or expired state parameter"
ExpiredState == "State parameter has expired"
ServiceMismatch == "Service mismatch in state parameter"
UnsupportedService == "Unsupported service"
TokenExchangeFailed == "Token exchange failed"
OAuthError == "OAuth error"
TokenRefreshFailed == "Token refresh failed"
TokenRefreshError == "Token refresh error"
CommitFailed == "commit failed"
AuthorizationError == "Authorization Error"
ConnectionNotFound == "Service connection not found"
NoCredential == "NoCredential"

(* What a provider's token endpoint may answer: the request fails, the     *)
(* body carries 'error', or it carries tokens, with or without a refresh   *)
(* token and an expires_in.                                                *)
Responses ==
  {[kind |-> k, refresh |-> FALSE, expires_in |-> None] : k \in {"RequestException", "error"}}
    \cup {[kind |-> "tokens", refresh |-> r, expires_in |-> e] :
            r \in BOOLEAN, e \in {None, Some(StateMaxAge)}}

(* The answers to a code exchange where what the tokens are like plays no  *)
(* part: a failure, an error body, and tokens that do not expire.          *)
GrantResponses ==
  {r \in Responses : r.kind = "tokens" => (r.refresh /\ r.expires_in = None)}

(* A mapping without the key k, and with k set to v. *)
Without(f, k) == [x \in DOMAIN f \ {k} |-> f[x]]
With(f, k, v) == [x \in DOMAIN f \cup {k} |-> IF x = k THEN v ELSE f[x]]

Outcome(op, user, service, state, error) ==
  [NoOutcome EXCEPT !.op = op, !.user = user, !.service = service, !.state = state,
                    !.error = error]

(***************************************************************************)
(* generate_auth_url, lines 50-87.                                         *)
(***************************************************************************)
generate_auth_url(service, user_id) ==
  /\ IF service \notin oauth_configs
       THEN /\ oauth' = Outcome("generate_auth_url", user_id, service, 0, UnsupportedService)
            /\ UNCHANGED << state_cache, nonces >>
       ELSE /\ nonces < MaxNonces
            /\ state_cache' = With(state_cache, nonces + 1,
                                   [user_id |-> user_id, service |-> service,
                                    timestamp |-> time])
            /\ nonces' = nonces + 1
            /\ oauth' = Outcome("generate_auth_url", user_id, service, nonces + 1, "")
  /\ UNCHANGED << presented, connections, minted, session_cache, sessions, time >>

(***************************************************************************)
(* exchange_code_for_tokens, lines 89-174.                                 *)
(***************************************************************************)

(* The state is read and never removed. *)
state_cache_after_read(cache, state) == cache

(* Lines 92-95: the cache after the verification: the state is popped as   *)
(* soon as it is found.                                                    *)
state_cache_after(cache, state) == Without(cache, state)

(* The service compared before the age. *)
state_verdict_service_first(cache, state, service, t) ==
  IF state \notin DOMAIN cache THEN "Invalid or expired state parameter"
  ELSE IF service # cache[state].service THEN "Service mismatch in state parameter"
  ELSE IF t - cache[state].timestamp > 300 THEN "State parameter has expired"
  ELSE ""

(* The verification without the comparison of the service. *)
state_verdict_any_service(cache, state, service, t) ==
  IF state \notin DOMAIN cache THEN "Invalid or expired state parameter"
  ELSE IF t - cache[state].timestamp > 300 THEN "State parameter has expired"
  ELSE ""

(* Lines 92-102: the error the verification of the state raises, or "". *)
state_verdict(cache, state, service, t) ==
  IF state \notin DOMAIN cache THEN InvalidState
  ELSE IF t - cache[state].timestamp > StateMaxAge THEN ExpiredState
  ELSE IF service # cache[state].service THEN ServiceMismatch
  ELSE ""

(* Lines 129-174: what becomes of the provider's answer; token is the      *)
(* token the provider minted.                                              *)
standardized_tokens(response, service, state_data, token) ==
  [error |-> CASE response.kind = "RequestException" -> TokenExchangeFailed
               [] response.kind = "error" -> OAuthError
               [] OTHER -> "",
   access_token |-> Some(token),
   refresh_token |-> IF response.refresh THEN Some(token) ELSE None,
   expires_in |-> response.expires_in,
   service |-> service,
   user_id |-> state_data.user_id]

(***************************************************************************)
(* oauth_callback, src/src/api/main.py lines 180-271; answers is what the  *)
(* provider may answer to the exchange of the code.                        *)
(***************************************************************************)
token_expires_at(expires_in, t) ==
  IF IsSet(expires_in) THEN Some(t + Val(expires_in)) ELSE None

(* The query that leaves out the user. *)
existing_connection_any_user(conns, user_id, service) ==
  {i \in 1..Len(conns) : conns[i].service_name = service}

(* The query that looks only among the active connections. *)
existing_connection_active_only(conns, user_id, service) ==
  {i \in 1..Len(conns) :
     conns[i].user_id = user_id /\ conns[i].service_name = service /\ conns[i].is_active}

(* Lines 205-208: the rows the query for the connection of this user and   *)
(* service matches, whatever their is_active; first() takes one of them.   *)
existing_connection(conns, user_id, service) ==
  {i \in 1..Len(conns) : conns[i].user_id = user_id /\ conns[i].service_name = service}

(* Lines 228-246: the row of a new connection. *)
ServiceConnection(tokens, service, t) ==
  [user_id |-> tokens.user_id,
   service_name |-> service,
   access_token |-> tokens.access_token,
   refresh_token |-> tokens.refresh_token,
   token_expires_at |-> token_expires_at(tokens.expires_in, t),
   is_active |-> TRUE]

(* Lines 210-226: the existing row after the update. *)
updated_connection(row, tokens, t) ==
  [row EXCEPT !.access_token = tokens.access_token,
              !.refresh_token = tokens.refresh_token,
              !.token_expires_at = token_expires_at(tokens.expires_in, t),
              !.is_active = TRUE]

oauth_callback(service, state, error, answers) ==
  /\ IF error
       THEN /\ oauth' = Outcome("oauth_callback", "", service, state, AuthorizationError)
            /\ UNCHANGED << state_cache, presented, connections, minted >>
       ELSE LET verdict == state_verdict(state_cache, state, service, time)
            IN /\ state_cache' = state_cache_after(state_cache, state)
               /\ presented' = presented \cup ({state} \cap 1..nonces)
               /\ IF verdict # ""
                    THEN /\ oauth' = Outcome("oauth_callback", "", service, state, verdict)
                         /\ UNCHANGED << connections, minted >>
                    ELSE \E response \in answers, ok \in BOOLEAN :
                           LET tokens == standardized_tokens(
                                           response, service, state_cache[state], minted + 1)
                               found == existing_connection(connections, tokens.user_id, service)
                               done == [Outcome("oauth_callback", tokens.user_id, service,
                                                state, "")
                                          EXCEPT !.contacted = TRUE]
                           IN /\ response.kind = "tokens" => minted < MaxTokens
                              /\ minted' = IF response.kind = "tokens" THEN minted + 1 ELSE minted
                              /\ IF tokens.error # ""
                                   THEN /\ oauth' = [done EXCEPT !.error = tokens.error]
                                        /\ UNCHANGED connections
                                 ELSE IF ~ok
                                   THEN /\ oauth' = [done EXCEPT !.error = CommitFailed]
                                        /\ UNCHANGED connections
                                 ELSE IF found = {}
                                   THEN /\ connections' =
                                             Append(connections,
                                                    ServiceConnection(tokens, service, time))
                                        /\ oauth' = [done EXCEPT !.token = tokens.access_token,
                                                                 !.upsert = "inserted"]
                                 ELSE \E i \in found :
                                        /\ connections' =
                                             [connections EXCEPT
                                                ![i] = updated_connection(@, tokens, time)]
                                        /\ oauth' = [done EXCEPT
                                                       !.token = tokens.access_token,
                                                       !.upsert = IF connections[i].is_active
                                                                    THEN "updated"
                                                                    ELSE "reactivated"]
  /\ UNCHANGED << nonces, session_cache, sessions, time >>

(***************************************************************************)
(* disconnect_service, src/src/api/main.py lines 291-322, with             *)
(* revoke_token, oauth2.py lines 222-257.  answer is what the provider's   *)
(* revoke endpoint does: "true", "false" (the request fails), "raised".    *)
(***************************************************************************)
revoke_token(service, answer) ==
  IF service \notin oauth_configs THEN "false"
  ELSE IF service = "github" THEN "true"
  ELSE answer

(* The record kept active unless the provider revoked the token. *)
deactivated_when_revoked(connection, revoked) ==
  [connection EXCEPT !.is_active = (revoked # "true")]

(* Lines 307-315: whatever revoke_token did, is_active is set false. *)
deactivated(connection, revoked) == [connection EXCEPT !.is_active = FALSE]

disconnect_service(user_id, service_name) ==
  /\ LET active == {i \in existing_connection(connections, user_id, service_name) :
                      connections[i].is_active}
     IN IF active = {}
          THEN /\ oauth' = Outcome("disconnect_service", user_id, service_name, 0,
                                   ConnectionNotFound)
               /\ UNCHANGED connections
          ELSE \E i \in active, answer \in {"true", "false", "raised"}, ok \in BOOLEAN :
                 LET done == [Outcome("disconnect_service", user_id, service_name, 0, "")
                                EXCEPT !.contacted = service_name # "github",
                                       !.revoked = revoke_token(service_name, answer)]
                 IN IF ok
                      THEN /\ connections' =
                                [connections EXCEPT
                                   ![i] = deactivated(@, revoke_token(service_name, answer))]
                           /\ oauth' = done
                      ELSE /\ oauth' = [done EXCEPT !.error = CommitFailed]
                           /\ UNCHANGED connections
  /\ UNCHANGED << state_cache, nonces, presented, minted, session_cache, sessions, time >>

(***************************************************************************)
(* refresh_access_token, oauth2.py lines 176-220.                          *)
(***************************************************************************)

(* A body carrying 'error' taken for tokens. *)
refresh_access_token_unchecked(service, refresh_token, response, token) ==
  [error |-> IF service \notin oauth_configs THEN "Unsupported service"
             ELSE IF response.kind = "RequestException" THEN "Token refresh failed"
             ELSE "",
   access_token |-> IF response.kind = "tokens" THEN Some(token) ELSE None,
   refresh_token |-> IF response.refresh THEN Some(token) ELSE Some(refresh_token),
   expires_in |-> response.expires_in]

(* The error raised, or the refreshed tokens: the access token the         *)
(* provider minted, its refresh token or else the one passed in, and its   *)
(* expires_in.                                                             *)
refresh_access_token(service, refresh_token, response, token) ==
  [error |-> IF service \notin oauth_configs THEN UnsupportedService
             ELSE IF response.kind = "RequestException" THEN TokenRefreshFailed
             ELSE IF response.kind = "error" THEN TokenRefreshError
             ELSE "",
   access_token |-> IF response.kind = "tokens" THEN Some(token) ELSE None,
   refresh_token |-> IF response.refresh THEN Some(token) ELSE Some(refresh_token),
   expires_in |-> response.expires_in]

(***************************************************************************)
(* get_valid_token, which the adapters call (jira.py lines 36-40) and      *)
(* oauth2.py does not define: the current access token if it has not       *)
(* expired; if it has and there is a refresh token, the token obtained     *)
(* from refresh_access_token, stored before it is returned; else no        *)
(* credential.                                                             *)
(***************************************************************************)
token_expired(row, t) ==
  IsSet(row.token_expires_at) /\ Val(row.token_expires_at) <= t

get_valid_token(user_id, service) ==
  /\ LET active == {i \in existing_connection(connections, user_id, service) :
                      connections[i].is_active}
         none == Outcome("get_valid_token", user_id, service, 0, NoCredential)
     IN IF active = {}
          THEN oauth' = none /\ UNCHANGED << connections, minted >>
          ELSE \E i \in active :
                 IF ~token_expired(connections[i], time)
                   THEN /\ oauth' = [Outcome("get_valid_token", user_id, service, 0, "")
                                       EXCEPT !.token = connections[i].access_token]
                        /\ UNCHANGED << connections, minted >>
                 ELSE IF ~IsSet(connections[i].refresh_token)
                   THEN oauth' = none /\ UNCHANGED << connections, minted >>
                 ELSE \E response \in Responses, ok \in BOOLEAN :
                        LET tokens == refresh_access_token(
                                        service, Val(connections[i].refresh_token),
                                        response, minted + 1)
                            done == [Outcome("get_valid_token", user_id, service, 0, "")
                                       EXCEPT !.contacted = TRUE]
                        IN /\ response.kind = "tokens" => minted < MaxTokens
                           /\ minted' = IF response.kind = "tokens" THEN minted + 1 ELSE minted
                           /\ IF tokens.error # ""
                                THEN /\ oauth' = [done EXCEPT !.error = tokens.error]
                                     /\ UNCHANGED connections
                              ELSE IF ~ok
                                THEN /\ oauth' = [done EXCEPT !.error = CommitFailed]
                                     /\ UNCHANGED connections
                              ELSE /\ connections' =
                                        [connections EXCEPT
                                           ![i].access_token = tokens.access_token,
                                           ![i].refresh_token = tokens.refresh_token,
                                           ![i].token_expires_at =
                                              token_expires_at(tokens.expires_in, time)]
                                   /\ oauth' = [done EXCEPT !.token = tokens.access_token,
                                                            !.upsert = "refreshed"]
  /\ UNCHANGED << state_cache, nonces, presented, session_cache, sessions, time >>

(***************************************************************************)
(* Sessions: create_session, lines 337-349, and the hourly                 *)
(* periodic_cleanup of src/src/api/main.py lines 592-600, which calls      *)
(* cleanup_expired_sessions, lines 445-458.                                *)
(***************************************************************************)
create_session(user_id) ==
  /\ sessions < MaxSessions
  /\ session_cache' = With(session_cache, sessions + 1,
                           [user_id |-> user_id, created_at |-> time,
                            last_activity |-> time])
  /\ sessions' = sessions + 1
  /\ UNCHANGED << state_cache, nonces, presented, connections, minted, time, oauth >>

cleanup_expired_sessions(cache, t) ==
  [s \in {x \in DOMAIN cache : ~(t - cache[x].created_at > SessionMaxAge)} |-> cache[s]]

periodic_cleanup ==
  /\ session_cache' = cleanup_expired_sessions(session_cache, time)
  /\ oauth' = Outcome("periodic_cleanup", "", "", 0, "")
  /\ UNCHANGED << state_cache, nonces, presented, connections, minted, sessions, time >>

(* Time passes between two requests, up to one of the given instants. *)
elapse(instants) ==
  /\ \E t \in instants : t > time /\ time' = t
  /\ UNCHANGED << state_cache, nonces, presented, connections, minted, session_cache,
                  sessions, oauth >>

NextOAuth ==
  \/ (\E service \in ServiceNames, u \in Users : generate_auth_url(service, u))
       /\ UNCHANGED << agentVars, concurrentVars >>
  \/ (\E service \in ConnectedServices, state \in 0..nonces, error \in BOOLEAN :
        oauth_callback(service, state, error, GrantResponses))
       /\ UNCHANGED << agentVars, concurrentVars >>
  \/ (\E u \in Users, service \in ConnectedServices : disconnect_service(u, service))
       /\ UNCHANGED << agentVars, concurrentVars >>
  \/ elapse(HandshakeInstants) /\ UNCHANGED << agentVars, concurrentVars >>

SpecOAuth == Init /\ [][NextOAuth]_vars

(***************************************************************************)
(* One user's grants are completed and the adapters ask for the tokens.    *)
(***************************************************************************)
NextToken ==
  \/ (\E service \in ConnectedServices : generate_auth_url(service, "alice"))
       /\ UNCHANGED << agentVars, concurrentVars >>
  \/ (\E service \in ConnectedServices, state \in 1..nonces :
        oauth_callback(service, state, FALSE, Responses))
       /\ UNCHANGED << agentVars, concurrentVars >>
  \/ (\E service \in ConnectedServices : get_valid_token("alice", service))
       /\ UNCHANGED << agentVars, concurrentVars >>
  \/ elapse(HandshakeInstants) /\ UNCHANGED << agentVars, concurrentVars >>

SpecToken == Init /\ [][NextToken]_vars

(***************************************************************************)
(* The two process-wide caches and the background task that sweeps them:   *)
(* handshakes are begun and never completed, sessions are created, time    *)
(* passes and periodic_cleanup runs.                                       *)
(***************************************************************************)
NextCleanup ==
  \/ (\E service \in ServiceNames, u \in Users : generate_auth_url(service, u))
       /\ UNCHANGED << agentVars, concurrentVars >>
  \/ (\E u \in Users : create_session(u)) /\ UNCHANGED << agentVars, concurrentVars >>
  \/ periodic_cleanup /\ UNCHANGED << agentVars, concurrentVars >>
  \/ elapse(Instants) /\ UNCHANGED << agentVars, concurrentVars >>

SpecCleanup == Init /\ [][NextCleanup]_vars

(***************************************************************************)
(* Sessions in use: get_user_from_session, oauth2.py lines 351-373, as     *)
(* every authenticated request calls it through get_current_user,          *)
(* src/src/api/main.py lines 90-95; invalidate_session, lines 375-381; and *)
(* the two ways of logging out, the endpoint logout_user of                *)
(* src/src/api/main.py lines 144-149 and the command logout of             *)
(* src/src/auth/main.py lines 64-82.                                       *)
(***************************************************************************)
InvalidToken == "Invalid or expired token"

(* The instants at which a session is used: when it is created, later the  *)
(* same day, at the end of its day and after it.                           *)
SessionInstants ==
  {0, StateMaxAge + 150, SessionMaxAge, SessionMaxAge + StateMaxAge + 150}

(* The rows of table users: create_user stores them with is_active true    *)
(* and nothing in the program changes that.                                *)
ActiveUsers == Users

(* The day counted from the last use of the session. *)
session_expired_idle(session, t) == t - session.last_activity > SessionMaxAge

(* Line 359. *)
session_expired(session, t) == t - session.created_at > SessionMaxAge

(* The cache get_user_from_session leaves, the user it returns and whether *)
(* it deleted the session.                                                 *)
get_user_from_session(cache, session_token, t) ==
  IF session_token \notin DOMAIN cache
    THEN [cache |-> cache, user |-> None, removed |-> FALSE]
  ELSE IF session_expired(cache[session_token], t)
    THEN [cache |-> Without(cache, session_token), user |-> None, removed |-> TRUE]
  ELSE LET touched == [cache EXCEPT ![session_token].last_activity = t]
       IN IF cache[session_token].user_id \in ActiveUsers
            THEN [cache |-> touched, user |-> Some(cache[session_token].user_id),
                  removed |-> FALSE]
            ELSE [cache |-> Without(touched, session_token), user |-> None,
                  removed |-> TRUE]

invalidate_session(cache, session_token) ==
  IF session_token \in DOMAIN cache THEN Without(cache, session_token) ELSE cache

(* What a request carrying session_token gets from the dependency          *)
(* get_current_user: the user, or the 401.                                 *)
authenticated(op, session_token, found) ==
  [Outcome(op, IF found.user = None THEN "" ELSE found.user[1], "", session_token,
           IF found.user = None THEN InvalidToken ELSE "")
     EXCEPT !.removed = found.removed]

(* Any authenticated request, as far as the session goes. *)
get_current_user(session_token) ==
  /\ LET found == get_user_from_session(session_cache, session_token, time)
     IN /\ session_cache' = found.cache
        /\ oauth' = authenticated("get_current_user", session_token, found)
  /\ UNCHANGED << state_cache, nonces, presented, connections, minted, sessions, time >>

(* POST /auth/logout: the dependency get_current_user, then the body,      *)
(* which returns its message and does nothing else.                        *)
logout_user(session_token) ==
  /\ LET found == get_user_from_session(session_cache, session_token, time)
     IN /\ session_cache' = found.cache
        /\ oauth' = authenticated("logout_user", session_token, found)
  /\ UNCHANGED << state_cache, nonces, presented, connections, minted, sessions, time >>

(* The command logout, given the token of the session file.  The command   *)
(* is taken to act on the cache that holds the session.                    *)
logout(session_token) ==
  /\ session_cache' = invalidate_session(session_cache, session_token)
  /\ oauth' = [Outcome("logout", "", "", session_token, "")
                 EXCEPT !.removed = session_token \in DOMAIN session_cache]
  /\ UNCHANGED << state_cache, nonces, presented, connections, minted, sessions, time >>

NextSession ==
  \/ (\E u \in Users : create_session(u)) /\ UNCHANGED << agentVars, concurrentVars >>
  \/ (\E s \in 1..sessions : get_current_user(s))
       /\ UNCHANGED << agentVars, concurrentVars >>
  \/ (\E s \in 1..sessions : logout_user(s)) /\ UNCHANGED << agentVars, concurrentVars >>
  \/ (\E s \in 1..sessions : logout(s)) /\ UNCHANGED << agentVars, concurrentVars >>
  \/ periodic_cleanup /\ UNCHANGED << agentVars, concurrentVars >>
  \/ elapse(SessionInstants) /\ UNCHANGED << agentVars, concurrentVars >>

SpecSession == Init /\ [][NextSession]_vars

(***************************************************************************)
(* Two rollback_action requests in flight together.  rollback_action,      *)
(* src/src/core/agent.py lines 455-537, is a coroutine that awaits each    *)
(* compensating adapter method (line 502): while one request waits for an  *)
(* adapter the other runs, on the same event loop or in another process    *)
(* of the command line.  Each request holds its own copy of the Action it  *)
(* read.  A step runs a request from one await to the next.                *)
(***************************************************************************)
Invoked(c) == IF c \in DOMAIN invocations THEN invocations[c] ELSE 0

(* Line 502: the compensating method of Call c is invoked. *)
invoke(c) == invocations' = With(invocations, c, Invoked(c) + 1)

(* Lines 516-537 for request r, which has collected results: the Action    *)
(* is assigned ROLLED_BACK and committed, and the response returned.       *)
rollback_finish(r, request, results, t) ==
  \E ok \in CommitOutcomes :
    LET assigned == rollback_assignments(request.reason, results, t)
    IN IF ok
         THEN /\ actions' = [actions EXCEPT
                               ![request.id].status = assigned.status,
                               ![request.id].rolled_back_at = assigned.rolled_back_at,
                               ![request.id].rollback_reason = assigned.rollback_reason,
                               ![request.id].rollback_data = assigned.rollback_data]
              /\ rollbacks' = [rollbacks EXCEPT
                                 ![r] = [request EXCEPT !.pc = "done", !.results = results,
                                                        !.success = TRUE,
                                                        !.message = RolledBack]]
              /\ UNCHANGED faults
         ELSE /\ rollbacks' = [rollbacks EXCEPT
                                 ![r] = [request EXCEPT !.pc = "done", !.results = results,
                                                        !.message = RollbackFailed]]
              /\ faults' = faults + 1
              /\ UNCHANGED actions

(* Lines 466-502: request r arrives, passes or fails the checks, reads the *)
(* calls to compensate and invokes the first compensation; with nothing to *)
(* compensate it runs to its end.                                          *)
rollback_begin(r, user, id, reason) ==
  /\ rollbacks[r].pc = "none"
  /\ ex.pc = "idle"
  /\ LET refusal == rollback_precondition(query_action(user, id))
         request == [NoRequest EXCEPT !.user = user, !.id = id, !.reason = reason]
     IN IF refusal # ""
          THEN /\ rollbacks' = [rollbacks EXCEPT
                                  ![r] = [request EXCEPT !.pc = "done", !.message = refusal]]
               /\ UNCHANGED << actions, faults, invocations >>
          ELSE \E selected \in order_by_called_at_desc(rollback_calls(id)) :
                 IF Len(selected) = 0
                   THEN /\ rollback_finish(r, request, << >>, now)
                        /\ UNCHANGED invocations
                   ELSE /\ rollbacks' = [rollbacks EXCEPT
                                           ![r] = [request EXCEPT !.pc = "awaiting",
                                                                  !.order = selected,
                                                                  !.k = 1]]
                        /\ invoke(selected[1])
                        /\ UNCHANGED << actions, faults >>
  /\ UNCHANGED << calls, now, ex, history, resp, rb, exchanges >>

(* Lines 502-522: the adapter request r waits for returns or raises; the   *)
(* loop records it and invokes the next compensation, or, after the last,  *)
(* the request finishes.                                                   *)
rollback_resume(r) ==
  /\ rollbacks[r].pc = "awaiting"
  /\ \E returned \in BOOLEAN :
       LET request == rollbacks[r]
           c == request.order[request.k]
           results == Append(request.results,
                             [function_call_id |-> c,
                              rollback_function |-> Val(calls[c].rollback_function),
                              outcome |-> IF returned THEN "result" ELSE "error"])
       IN IF request.k < Len(request.order)
            THEN /\ rollbacks' = [rollbacks EXCEPT ![r].results = results,
                                                    ![r].k = request.k + 1]
                 /\ invoke(request.order[request.k + 1])
                 /\ UNCHANGED << actions, faults >>
            ELSE /\ rollback_finish(r, request, results, now + 1)
                 /\ UNCHANGED invocations
  /\ now' = now + 1
  /\ UNCHANGED << calls, ex, history, resp, rb, exchanges >>

(* Commands of one user are executed and made reversible, and rollback     *)
(* requests for them arrive while the agent executes nothing.              *)
NextRollbacks ==
  \/ execute_command("alice") /\ UNCHANGED << oauthVars, concurrentVars >>
  \/ call_llm_with_functions /\ UNCHANGED << oauthVars, concurrentVars >>
  \/ execute_function_call /\ UNCHANGED << oauthVars, concurrentVars >>
  \/ execute_command_finish /\ UNCHANGED << oauthVars, concurrentVars >>
  \/ execute_command_except /\ UNCHANGED << oauthVars, concurrentVars >>
  \/ (\E id \in 1..MaxActions : set_can_rollback(id, TRUE))
       /\ UNCHANGED << oauthVars, concurrentVars >>
  \/ (\E r \in Requests, id \in 1..MaxActions : rollback_begin(r, "alice", id, ""))
       /\ UNCHANGED oauthVars
  \/ (\E r \in Requests : rollback_resume(r)) /\ UNCHANGED oauthVars

SpecRollbacks == Init /\ [][NextRollbacks]_vars

(***************************************************************************)
(* Two exchange_code_for_tokens calls in flight together, statement by     *)
(* statement: src/src/auth/oauth2.py lines 89-135.  The function takes no  *)
(* lock, so callers on different threads interleave between any two of its *)
(* statements.  (The endpoint oauth_callback itself calls it from the      *)
(* event loop, where a call runs to its end before the next begins: that   *)
(* is the action oauth_callback above.)                                    *)
(***************************************************************************)
KeyError == "KeyError"

(* A call is made with the service and state of a provider's redirect. *)
exchange_code_for_tokens(r, service, state) ==
  /\ exchanges[r].pc = "none"
  /\ exchanges' = [exchanges EXCEPT
                     ![r] = [NoCallback EXCEPT !.pc = "line 92", !.service = service,
                                               !.state = state]]
  /\ UNCHANGED << state_cache, nonces, presented, connections, minted, session_cache,
                  sessions, time, oauth >>

(* Lines 92-93: if state not in self._state_cache: raise ValueError. *)
exchange_membership(r) ==
  /\ exchanges[r].pc = "line 92"
  /\ exchanges' = IF exchanges[r].state \in DOMAIN state_cache
                    THEN [exchanges EXCEPT ![r].pc = "line 95"]
                    ELSE [exchanges EXCEPT ![r].pc = "raised", ![r].error = InvalidState]
  /\ UNCHANGED << state_cache, nonces, presented, connections, minted, session_cache,
                  sessions, time, oauth >>

(* Line 95: state_data = self._state_cache.pop(state), which raises        *)
(* KeyError when the key is not there.                                     *)
exchange_pop(r) ==
  /\ exchanges[r].pc = "line 95"
  /\ IF exchanges[r].state \in DOMAIN state_cache
       THEN /\ exchanges' = [exchanges EXCEPT
                               ![r].pc = "line 98",
                               ![r].state_data = Some(state_cache[exchanges[r].state])]
            /\ state_cache' = Without(state_cache, exchanges[r].state)
            /\ presented' = presented \cup {exchanges[r].state}
       ELSE /\ exchanges' = [exchanges EXCEPT ![r].pc = "raised", ![r].error = KeyError]
            /\ UNCHANGED << state_cache, presented >>
  /\ UNCHANGED << nonces, connections, minted, session_cache, sessions, time, oauth >>

(* Lines 98-102: the age and the service of the state that was taken. *)
exchange_verify(r) ==
  /\ exchanges[r].pc = "line 98"
  /\ LET state_data == Val(exchanges[r].state_data)
     IN exchanges' =
          IF time - state_data.timestamp > StateMaxAge
            THEN [exchanges EXCEPT ![r].pc = "raised", ![r].error = ExpiredState]
          ELSE IF exchanges[r].service # state_data.service
            THEN [exchanges EXCEPT ![r].pc = "raised", ![r].error = ServiceMismatch]
          ELSE [exchanges EXCEPT ![r].pc = "line 130"]
  /\ UNCHANGED << state_cache, nonces, presented, connections, minted, session_cache,
                  sessions, time, oauth >>

(* Line 130: the code is posted to the provider's token endpoint. *)
exchange_post(r) ==
  /\ exchanges[r].pc = "line 130"
  /\ exchanges' = [exchanges EXCEPT ![r].pc = "posted", ![r].contacted = TRUE]
  /\ UNCHANGED << state_cache, nonces, presented, connections, minted, session_cache,
                  sessions, time, oauth >>

NextExchanges ==
  \/ (\E service \in ConnectedServices, u \in Users : generate_auth_url(service, u))
       /\ UNCHANGED << agentVars, concurrentVars >>
  \/ elapse(HandshakeInstants) /\ UNCHANGED << agentVars, concurrentVars >>
  \/ (\E r \in Requests, service \in ConnectedServices, state \in 0..nonces :
        exchange_code_for_tokens(r, service, state))
       /\ UNCHANGED << agentVars, rollbacks, invocations >>
  \/ (\E r \in Requests : exchange_membership(r))
       /\ UNCHANGED << agentVars, rollbacks, invocations >>
  \/ (\E r \in Requests : exchange_pop(r))
       /\ UNCHANGED << agentVars, rollbacks, invocations >>
  \/ (\E r \in Requests : exchange_verify(r))
       /\ UNCHANGED << agentVars, rollbacks, invocations >>
  \/ (\E r \in Requests : exchange_post(r))
       /\ UNCHANGED << agentVars, rollbacks, invocations >>

SpecExchanges == Init /\ [][NextExchanges]_vars


(***************************************************************************)
(* Properties.                                                             *)
(***************************************************************************)
StatusAssignments(id) ==
  SelectSeq(history[id], LAMBDA e : e.attr = "status")

CompletedAtAssignments(id) ==
  SelectSeq(history[id], LAMBDA e : e.attr = "completed_at")

Terminal == {COMPLETED, FAILED, ROLLED_BACK}

(* C1: the statuses execute_command assigns to an Action follow            *)
(* IN_PROGRESS -> {COMPLETED, FAILED}: an Action once set COMPLETED is     *)
(* never afterwards set FAILED, nor one set FAILED afterwards COMPLETED,   *)
(* also when a commit fails during finish.                                 *)
C1_StatusMonotonic ==
  \A id \in 1..Len(history) :
    LET st == StatusAssignments(id)
    IN \A i, j \in 1..Len(st) :
         i < j => /\ ~(st[i].value = COMPLETED /\ st[j].value = FAILED)
                  /\ ~(st[i].value = FAILED /\ st[j].value = COMPLETED)
                  /\ st[j].value # IN_PROGRESS

(* C2: rollback_action neither sets ROLLED_BACK nor invokes a compensating *)
(* operation on an Action whose status is PENDING, IN_PROGRESS or FAILED,  *)
(* whatever its can_rollback flag.                                         *)
C2_RollbackOnlyFromCompleted ==
  [][\A id \in 1..Len(actions) :
       actions[id].status \in {PENDING, IN_PROGRESS, FAILED}
         => /\ actions'[id].status # ROLLED_BACK
            /\ ~(rb' # rb /\ rb'.action_id = id /\ rb'.attempts # << >>)]_vars

(* C3: completed_at is set exactly when the status is COMPLETED, FAILED or *)
(* ROLLED_BACK, and over the life of an Action it is assigned once.        *)
C3_CompletedAtOnce ==
  \A id \in 1..Len(actions) :
    /\ IsSet(actions[id].completed_at) <=> actions[id].status \in Terminal
    /\ Len(CompletedAtAssignments(id)) <= 1
    /\ actions[id].status \in Terminal => Len(CompletedAtAssignments(id)) = 1

(* C4: when execute_command has finished an Action as COMPLETED, the       *)
(* Action's can_rollback and the rollback_available flag returned are true *)
(* exactly when one of the Action's calls carries a rollback function.     *)
C4_CanRollbackDerived ==
  (resp.op = "execute" /\ resp.success)
    => LET id == Val(resp.action_id)
       IN /\ actions[id].can_rollback = (rollback_calls(id) # {})
          /\ resp.rollback_available = (rollback_calls(id) # {})

(* C5: a COMPLETED call of create_jira_ticket or upload_to_s3 has          *)
(* rollback_function and rollback_parameters, and a FAILED call has        *)
(* neither, also when what failed was the commit after the adapter         *)
(* returned.                                                               *)
C5_RollbackDataMatchesStatus ==
  \A c \in 1..Len(calls) :
    /\ (calls[c].status = COMPLETED
          /\ calls[c].function_name \in {"create_jira_ticket", "upload_to_s3"})
         => (IsSet(calls[c].rollback_function) /\ IsSet(calls[c].rollback_parameters))
    /\ calls[c].status = FAILED
         => (~IsSet(calls[c].rollback_function) /\ ~IsSet(calls[c].rollback_parameters))

(* The Action id is COMPLETED and its one function call was a successful   *)
(* upload_to_s3 with key k.                                                *)
SingleUpload(id, k) ==
  /\ actions[id].status = COMPLETED
  /\ actions[id].output_data =
       Some(<< [function |-> "upload_to_s3", parameters |-> k, status |-> "success"] >>)

(* C6: after a command that resolved to one upload_to_s3 with key k whose  *)
(* upload succeeded, rollback_action by the same user passes its           *)
(* preconditions, calls delete_s3_object with key k, and (its commit       *)
(* succeeding) leaves the Action ROLLED_BACK and returns success.          *)
C6_UploadThenRollback ==
  [][\A id \in 1..Len(actions), k \in Keys :
       (SingleUpload(id, k) /\ rb' # rb /\ rb'.action_id = id
          /\ rb'.user = actions[id].user_id)
         => /\ rb'.passed
            /\ Len(rb'.attempts) = 1
            /\ rb'.attempts[1].method = "delete_s3_object"
            /\ rb'.attempts[1].parameters = [name |-> "key", value |-> k]
            /\ rb'.committed => (actions'[id].status = ROLLED_BACK /\ resp'.success)]_vars

(* C7: rollback_action invokes the compensations in strictly decreasing    *)
(* called_at order, the reverse of the order the calls were dispatched in. *)
C7_ReverseOrder ==
  rb.passed
    => \A i, j \in 1..Len(rb.attempts) :
         i < j => /\ calls[rb.attempts[i].function_call_id].called_at
                       > calls[rb.attempts[j].function_call_id].called_at
                  /\ rb.attempts[i].function_call_id > rb.attempts[j].function_call_id

C7_Witness ==
  /\ rb.passed
  /\ Len(rb.attempts) >= 2
  /\ rb.attempts[1].method = "delete_s3_object"
  /\ rb.attempts[2].method = "delete_jira_ticket"


(* A step in which rollback_action returns this error, invokes nothing and *)
(* leaves every Action as it was.                                          *)
Refused(message) ==
  /\ rb'.message = message
  /\ resp'.op = "rollback"
  /\ resp'.message = message
  /\ ~resp'.success
  /\ ~rb'.passed
  /\ rb'.attempts = << >>
  /\ actions' = actions

(* C8: rollback_action checks in order that the Action exists and belongs  *)
(* to the user (else not found), that can_rollback is true (else not       *)
(* reversible), that the status is not ROLLED_BACK (else already rolled    *)
(* back); the first check that fails decides, no compensation is invoked   *)
(* and the Action is left as it was.                                       *)
C8_PreconditionOrder ==
  [][rb' # rb
       => LET id == rb'.action_id
              mine == id \in 1..Len(actions) /\ actions[id].user_id = rb'.user
          IN /\ ~mine => Refused(NotFound)
             /\ (mine /\ ~actions[id].can_rollback) => Refused(NotReversible)
             /\ (mine /\ actions[id].can_rollback /\ actions[id].status = ROLLED_BACK)
                  => Refused(AlreadyRolledBack)]_vars

C8_Witness ==
  /\ rb.message = AlreadyRolledBack
  /\ resp.message = AlreadyRolledBack
  /\ actions[rb.action_id].status = ROLLED_BACK

(* C9: one rollback_action attempts the compensation of every call of the  *)
(* Action that carries rollback data exactly once, whether or not earlier  *)
(* ones failed, and the rollback results hold one entry per such call,     *)
(* its result or its error.                                                *)
C9_EveryCompensationOnce ==
  rb.passed
    => LET want == rollback_calls(rb.action_id)
       IN /\ Len(rb.attempts) = Cardinality(want)
          /\ {rb.attempts[k].function_call_id : k \in 1..Len(rb.attempts)} = want
          /\ Len(rb.results) = Len(rb.attempts)
          /\ \A k \in 1..Len(rb.results) :
               /\ rb.results[k].function_call_id = rb.attempts[k].function_call_id
               /\ rb.results[k].outcome \in {"result", "error"}
          /\ (resp.op = "rollback" /\ resp.success) => resp.data = rb.results

C9_Witness ==
  /\ rb.passed
  /\ Len(rb.attempts) >= 2
  /\ rb.results[1].outcome = "error"
  /\ resp.op = "rollback"
  /\ resp.success

(* C10: a rollback_action that passed its preconditions and attempted the  *)
(* compensations sets the Action ROLLED_BACK with rolled_back_at, the      *)
(* reason and the full list of per-call outcomes, also when every          *)
(* compensation failed; the store holds them once the commit succeeded.    *)
C10_MarkedRolledBack ==
  rb.passed
    => LET a == Val(rb.assigned)
           row == actions[rb.action_id]
       IN /\ IsSet(rb.assigned)
          /\ a.status = ROLLED_BACK
          /\ IsSet(a.rolled_back_at)
          /\ a.rollback_reason = Some(rb.reason)
          /\ a.rollback_data = Some(rb.results)
          /\ Len(rb.results) = Cardinality(rollback_calls(rb.action_id))
          /\ rb.committed
               => /\ row.status = ROLLED_BACK
                  /\ row.rolled_back_at = a.rolled_back_at
                  /\ row.rollback_reason = Some(rb.reason)
                  /\ row.rollback_data = Some(rb.results)

C10_Witness ==
  /\ rb.passed
  /\ rb.committed
  /\ Len(rb.results) >= 1
  /\ \A k \in 1..Len(rb.results) : rb.results[k].outcome = "error"
  /\ actions[rb.action_id].status = ROLLED_BACK
  /\ actions[rb.action_id].rollback_data = Some(rb.results)

(* C11: the success flag rollback_action returns after attempting the      *)
(* compensations is true exactly when every compensation it attempted      *)
(* returned; one that raised makes the flag false although the Action is   *)
(* marked ROLLED_BACK.                                                     *)
C11_AggregateSuccess ==
  (rb.passed /\ rb.committed /\ resp.op = "rollback")
    => (resp.success <=> \A k \in 1..Len(rb.results) : rb.results[k].outcome = "result")

(* A step in which exchange_code_for_tokens ran with the nonce n. *)
ExchangeStep(n) ==
  /\ oauth'.op = "oauth_callback"
  /\ oauth'.state = n
  /\ oauth'.error # AuthorizationError
  /\ (oauth' # oauth \/ state_cache' # state_cache)

(* The age of the handshake state of nonce n. *)
Age(n) == time - state_cache[n].timestamp

(* C12: a nonce is single use: the first exchange_code_for_tokens with a   *)
(* nonce of generate_auth_url and the service it was generated for, made   *)
(* within its window, passes the verification of the state (the provider   *)
(* is contacted), and every exchange with a nonce presented before fails   *)
(* with the invalid-state error, however the first one ended.              *)
C12_NonceSingleUse ==
  [][\A n \in 1..nonces :
       ExchangeStep(n)
         => /\ n \in presented
                 => (oauth'.error = InvalidState /\ ~oauth'.contacted
                       /\ connections' = connections)
            /\ n \notin presented
                 => /\ n \in DOMAIN state_cache
                    /\ (oauth'.service = state_cache[n].service /\ Age(n) <= StateMaxAge)
                         => oauth'.contacted
            /\ n \in presented'
            /\ n \notin DOMAIN state_cache']_vars

C12_Witness ==
  /\ oauth.op = "oauth_callback"
  /\ oauth.error = InvalidState
  /\ oauth.state = 1
  /\ nonces = 1
  /\ Len(connections) = 1
  /\ connections[1].is_active

(* C13: exchange_code_for_tokens with a known nonce older than 300 seconds *)
(* fails with the expired-state error, whatever the service, without       *)
(* contacting the provider, and the handshake state of the nonce is gone   *)
(* afterwards.                                                             *)
C13_ExpiredStateConsumed ==
  [][\A n \in DOMAIN state_cache :
       (ExchangeStep(n) /\ Age(n) > StateMaxAge)
         => /\ oauth'.error = ExpiredState
            /\ ~oauth'.contacted
            /\ minted' = minted
            /\ connections' = connections
            /\ n \notin DOMAIN state_cache']_vars

C13_Witness ==
  /\ oauth.op = "oauth_callback"
  /\ oauth.error = ExpiredState
  /\ oauth.state \in 1..nonces
  /\ oauth.state \notin DOMAIN state_cache
  /\ oauth.state \in presented

(* C14: exchange_code_for_tokens with a known, unexpired nonce and a       *)
(* service other than the one stored with it fails with the                *)
(* service-mismatch error, contacts no provider and creates or changes no  *)
(* Token Record.                                                           *)
C14_ServiceMismatchRejected ==
  [][\A n \in DOMAIN state_cache :
       (ExchangeStep(n) /\ Age(n) <= StateMaxAge /\ oauth'.service # state_cache[n].service)
         => /\ oauth'.error = ServiceMismatch
            /\ ~oauth'.contacted
            /\ minted' = minted
            /\ connections' = connections]_vars

C14_Witness ==
  /\ oauth.op = "oauth_callback"
  /\ oauth.error = ServiceMismatch
  /\ oauth.service = "github"
  /\ Len(connections) = 1
  /\ connections[1].service_name = "slack"

(* A step in which periodic_cleanup ran its cleanup. *)
CleanupStep ==
  /\ oauth'.op = "periodic_cleanup"
  /\ (oauth' # oauth \/ session_cache' # session_cache)

(* C15: a handshake state that is never presented is removed by the        *)
(* background sweep once its 300 seconds have passed: after a run of       *)
(* periodic_cleanup the handshake cache holds no expired entry.            *)
C15_SweepRemovesExpiredStates ==
  [][CleanupStep
       => \A n \in DOMAIN state_cache' :
            time' - state_cache'[n].timestamp <= StateMaxAge]_vars

(* C16: after any sequence of grant completions and disconnects the store  *)
(* holds at most one Token Record per user and service: a grant for a pair *)
(* that has a record, active or not, updates and reactivates it.           *)
C16_OneRecordPerPair ==
  /\ \A u \in Users, service \in ServiceNames :
       Cardinality({i \in 1..Len(connections) :
                      connections[i].user_id = u
                        /\ connections[i].service_name = service}) <= 1
  /\ (oauth.op = "oauth_callback" /\ oauth.upsert # "none")
       => \E i \in 1..Len(connections) :
            /\ connections[i].user_id = oauth.user
            /\ connections[i].service_name = oauth.service
            /\ connections[i].is_active
            /\ connections[i].access_token = oauth.token

C16_Witness ==
  /\ oauth.op = "oauth_callback"
  /\ oauth.upsert = "reactivated"
  /\ Len(connections) = 1
  /\ connections[1].is_active
  /\ connections[1].access_token = Some(2)

LastAttempted(e) == e.attempted[Len(e.attempted)]

(* A step of the dispatch loop that stored a FAILED call. *)
StoredFailedCall ==
  /\ ex.pc = "dispatch"
  /\ Len(calls') = Len(calls) + 1
  /\ calls'[Len(calls')].status = FAILED

(* C18: a function call that failed (its adapter raised, for want of a     *)
(* credential or otherwise) and whose FAILED Call was stored does not end  *)
(* the loop: its "failed" entry is appended to the results and the next    *)
(* function call is dispatched; at the end the results hold one entry per  *)
(* function call, in order, each success or failed, and the Action is      *)
(* committed COMPLETED.                                                    *)
C18_FailureDoesNotAbort ==
  [][/\ StoredFailedCall
          => /\ ex'.results =
                  Append(ex.results,
                         [function |-> LastAttempted(ex').name,
                          parameters |-> LastAttempted(ex').key,
                          status |-> "failed"])
             /\ ex'.i = ex.i + 1
             /\ ex'.pc = IF ex.i < ex.n THEN "dispatch" ELSE "finish"
     /\ ex.pc = "finish"
          => /\ Len(ex.results) = ex.n
             /\ Len(ex.attempted) = ex.n
             /\ \A k \in 1..ex.n :
                  /\ ex.results[k].function = ex.attempted[k].name
                  /\ ex.results[k].status \in {"success", "failed"}
     /\ (ex.pc = "finish" /\ ex'.pc = "idle")
          => /\ actions'[ex.id].status = COMPLETED
             /\ resp'.success
             /\ resp'.data = ex.results]_vars

C18_Witness ==
  /\ resp.op = "execute"
  /\ resp.success
  /\ Len(resp.data) = 2
  /\ resp.data[1].status = "failed"
  /\ resp.data[2].status = "success"
  /\ actions[Val(resp.action_id)].status = COMPLETED

(* C19: a function call whose name is none of the known functions is       *)
(* recorded as a FAILED Call with an error message, its "failed" entry is  *)
(* appended to the results and the loop goes on to the next function call  *)
(* (the store being reachable); it does not send the Action to FAILED.     *)
C19_UnknownFunctionRecorded ==
  [][(ex.pc = "dispatch" /\ ex'.attempted # ex.attempted
        /\ LastAttempted(ex').name = UnknownFunction /\ faults' = faults)
       => /\ Len(calls') = Len(calls) + 1
          /\ calls'[Len(calls')].function_name = UnknownFunction
          /\ calls'[Len(calls')].status = FAILED
          /\ IsSet(calls'[Len(calls')].error_message)
          /\ ex'.pc \in {"dispatch", "finish"}
          /\ ex'.results[Len(ex'.results)].status = "failed"]_vars

(* C20: an Action is set FAILED in the store only in a run of              *)
(* execute_command in which a commit raised; a language-model call that    *)
(* raises, or any other error, does not make the Action FAILED.            *)
C20_FailedOnlyOnStoreFailure ==
  [][\A id \in 1..Len(actions) :
       (actions'[id].status = FAILED /\ actions[id].status # FAILED)
         => ex.store_error]_vars

(***************************************************************************)
(* C21: a session expires 24 hours after its creation however it was used. *)
(* An access to a session older than 86400 seconds returns no user and     *)
(* removes the session; an access within the day leaves the session with   *)
(* the same created_at and last_activity set to the time of the access;    *)
(* and no step moves the created_at of a session that stays in the cache.  *)
(***************************************************************************)
C21_SessionExpiresFromCreation ==
  [][\A s \in 1..MaxSessions :
       /\ (s \in DOMAIN session_cache /\ s \in DOMAIN session_cache')
             => session_cache'[s].created_at = session_cache[s].created_at
       /\ (get_current_user(s) /\ s \in DOMAIN session_cache)
             => IF time - session_cache[s].created_at > SessionMaxAge
                  THEN oauth'.error = InvalidToken /\ s \notin DOMAIN session_cache'
                  ELSE /\ oauth'.user = session_cache[s].user_id
                       /\ s \in DOMAIN session_cache'
                       /\ session_cache'[s] =
                            [session_cache[s] EXCEPT !.last_activity = time]]_vars

(* An access after the day found the session, used earlier or not, and     *)
(* removed it.                                                             *)
C21_Witness ==
  /\ oauth.op = "get_current_user"
  /\ oauth.removed
  /\ oauth.error = InvalidToken
  /\ oauth.state \notin DOMAIN session_cache
  /\ time > SessionMaxAge

(***************************************************************************)
(* C22: after a logout, through the endpoint logout_user or the command    *)
(* logout, the session is no longer in the session cache.                  *)
(***************************************************************************)
C22_LogoutDestroysSession ==
  [][\A s \in 1..MaxSessions :
       (logout_user(s) \/ logout(s)) => s \notin DOMAIN session_cache']_vars


(***************************************************************************)
(* C23: a disconnect of an active connection of a user and service that    *)
(* completes leaves that Token Record in the table with is_active false    *)
(* and nothing else changed, whether the provider's revocation succeeded,  *)
(* failed or raised; no record is removed.                                 *)
(***************************************************************************)
C23_DisconnectDeactivates ==
  [][\A u \in Users, service \in ConnectedServices :
       LET active == {i \in 1..Len(connections) :
                        /\ connections[i].user_id = u
                        /\ connections[i].service_name = service
                        /\ connections[i].is_active}
       IN (disconnect_service(u, service) /\ active # {} /\ oauth'.error = "")
            => /\ oauth'.revoked \in {"true", "false", "raised"}
               /\ Len(connections') = Len(connections)
               /\ \E i \in active :
                    connections' = [connections EXCEPT ![i].is_active = FALSE]]_vars

(* The revocation raised and the record is there, deactivated. *)
C23_Witness ==
  /\ oauth.op = "disconnect_service"
  /\ oauth.error = ""
  /\ oauth.revoked = "raised"
  /\ \E i \in 1..Len(connections) :
       /\ connections[i].user_id = oauth.user
       /\ connections[i].service_name = oauth.service
       /\ ~connections[i].is_active

(***************************************************************************)
(* C24: success is reported only after the state it reports is in the      *)
(* store.  When execute_command returns success its Action is stored       *)
(* COMPLETED; when a function call's result says "success" its Call is     *)
(* stored COMPLETED; when rollback_action returns success its Action is    *)
(* stored ROLLED_BACK.                                                     *)
(***************************************************************************)
C24_SuccessAfterCommit ==
  [][/\ (resp' # resp /\ resp'.success /\ resp'.op = "execute")
          => /\ actions'[Val(resp'.action_id)].status = COMPLETED
             /\ actions'[Val(resp'.action_id)].output_data = Some(resp'.data)
     /\ (resp' # resp /\ resp'.success /\ resp'.op = "rollback")
          => /\ actions'[Val(resp'.action_id)].status = ROLLED_BACK
             /\ actions'[Val(resp'.action_id)].rollback_data = Some(resp'.data)
     /\ (ex.pc = "dispatch" /\ Len(ex'.results) = Len(ex.results) + 1
           /\ ex'.results[Len(ex'.results)].status = "success")
          => /\ Len(calls') = Len(calls) + 1
             /\ calls'[Len(calls')].automation_action_id = ex.id
             /\ calls'[Len(calls')].function_name = LastAttempted(ex').name
             /\ calls'[Len(calls')].status = COMPLETED]_vars

(* All three have been reported in one history: a command whose function   *)
(* call succeeded was executed and then rolled back, while the store       *)
(* had failed a commit along the way.                                      *)
C24_Witness ==
  /\ resp.op = "rollback"
  /\ resp.success
  /\ faults > 0
  /\ actions[Val(resp.action_id)].status = ROLLED_BACK
  /\ actions[Val(resp.action_id)].output_data # None
  /\ \E c \in 1..Len(calls) :
       calls[c].automation_action_id = Val(resp.action_id) /\ calls[c].status = COMPLETED

(***************************************************************************)
(* C25: when the adapter of a function call is invoked, the store already  *)
(* holds the Call of that function call, in status PENDING.  The adapter   *)
(* is invoked in the step that hands a known function to                   *)
(* _execute_function_call, and nothing is written before the adapter       *)
(* returns, so the store at the invocation is the store before the step.   *)
(***************************************************************************)
C25_PendingCallBeforeAdapter ==
  [][(ex.pc = "dispatch" /\ ex'.attempted # ex.attempted
        /\ LastAttempted(ex').name \in KnownFunctions)
       => \E c \in 1..Len(calls) :
            /\ calls[c].automation_action_id = ex.id
            /\ calls[c].function_name = LastAttempted(ex').name
            /\ calls[c].status = PENDING]_vars

(***************************************************************************)
(* C26: the function calls of one Action are executed one after the other  *)
(* in the order of the list.  Whenever the loop is about to execute the    *)
(* next function call, or has left the list behind, every earlier one has  *)
(* its Call in the store, finalized (COMPLETED or FAILED, completed_at     *)
(* set), the Calls are stored in the order of the list, and each was       *)
(* called after the one before it completed.                               *)
(***************************************************************************)
CallsOf(id) == SelectSeq(calls, LAMBDA c : c.automation_action_id = id)

C26_SequentialDispatch ==
  ex.pc \in {"dispatch", "finish"}
    => LET rows == CallsOf(ex.id)
       IN /\ Len(rows) = Len(ex.attempted)
          /\ Len(rows) = ex.i - 1
          /\ \A k \in 1..Len(rows) :
               /\ rows[k].function_name = ex.attempted[k].name
               /\ rows[k].parameters = ex.attempted[k].key
               /\ rows[k].status \in {COMPLETED, FAILED}
               /\ IsSet(rows[k].completed_at)
               /\ k > 1 => /\ Val(rows[k - 1].completed_at) <= rows[k].called_at
                            /\ rows[k - 1].called_at < rows[k].called_at

(* Two function calls were executed, the first of them failed. *)
C26_Witness ==
  /\ ex.pc = "finish"
  /\ Len(ex.attempted) = 2
  /\ Len(CallsOf(ex.id)) = 2
  /\ CallsOf(ex.id)[1].status = FAILED
  /\ CallsOf(ex.id)[2].status = COMPLETED

(***************************************************************************)
(* C27: when execute_command returns or raises, the Action it stored as    *)
(* IN_PROGRESS has a terminal status, COMPLETED or FAILED, in the store;   *)
(* also when the commit that records the outcome fails.                    *)
(***************************************************************************)
C27_NoActionLeftInProgress ==
  [][(ex.pc \in {"finish", "except"} /\ ex'.pc = "idle")
       => actions'[ex.id].status \in {COMPLETED, FAILED}]_vars

(***************************************************************************)
(* C28: of two rollback_action requests for the same rollback-eligible     *)
(* Action in flight together, at most one reports success and the other is *)
(* rejected as already rolled back, and no compensating operation of the   *)
(* Action is invoked more than once.  Stated for a store that failed no    *)
(* commit and for requests that found the Action reversible; requests that *)
(* run one after the other satisfy it.                                     *)
(***************************************************************************)
C28_RollbackOnce ==
  faults = 0
    => /\ \A c \in 1..Len(calls) : Invoked(c) <= 1
       /\ \A r, q \in Requests :
            (r # q /\ rollbacks[r].pc = "done" /\ rollbacks[q].pc = "done"
               /\ rollbacks[r].id = rollbacks[q].id /\ rollbacks[r].success
               /\ rollbacks[q].message \notin {NotFound, NotReversible})
              => /\ ~rollbacks[q].success
                 /\ rollbacks[q].message = AlreadyRolledBack

C30_TokensBoundToNonce ==
  [][(oauth'.op = "oauth_callback" /\ connections' # connections)
       => /\ oauth'.state \in DOMAIN state_cache
          /\ LET state_data == state_cache[oauth'.state]
                 written == {i \in 1..Len(connections') :
                               i > Len(connections) \/ connections'[i] # connections[i]}
             IN /\ Len(connections') >= Len(connections)
                /\ Cardinality(written) = 1
                /\ \A i \in written :
                     /\ connections'[i].user_id = state_data.user_id
                     /\ connections'[i].service_name = state_data.service
                     /\ connections'[i].access_token = oauth'.token
                     /\ i <= Len(connections)
                          => /\ connections[i].user_id = state_data.user_id
                             /\ connections[i].service_name = state_data.service]_vars

(* Two users completed a grant for the same service, the second after the  *)
(* first: each has a record of their own.                                  *)
C30_Witness ==
  /\ oauth.op = "oauth_callback"
  /\ oauth.upsert = "inserted"
  /\ Len(connections) = 2
  /\ connections[1].user_id # connections[2].user_id
  /\ connections[1].service_name = connections[2].service_name
  /\ connections[2].user_id = oauth.user

====
